---- MODULE Spec2Model ----
(***************************************************************************)
(* The double-bar visualization of src/examples/double_bar/double_bar.ts:  *)
(* the `vis` object (its stored fields, its three scales, the svg scene    *)
(* it owns) and the host that drives it through create and updateAsync.    *)
(*                                                                         *)
(* Numbers.  Horizontal lengths are kept in fixed point, Unit parts to a   *)
(* pixel, so that width * .65 / 2 is exact.  A value a scale produces is a *)
(* JavaScript number modelled as a fraction n/d (d > 0) or NaN.  Floating  *)
(* point rounding is not modelled.                                         *)
(* Text.  A text is a sequence of glyphs; getComputedTextLength is the sum *)
(* of the glyph widths.                                                    *)
(* Scene.  The children of the svg element are kept per class, each in     *)
(* document order: the selectors of the source only ever select by class.  *)
(***************************************************************************)
EXTENDS Integers, Sequences, FiniteSets

VARIABLES vis, host, el, tip

vars == <<vis, host, el, tip>>

----------------------------------------------------------------------------
(* Bounds of the model *)

MaxRows == 2
MaxCycles == 2
MaxLen == 3
MaxTipVal == 5
CharWidth == 6
EllipsisWidth == 8

(* Parts of a pixel: .65 = 13/20, and halfGraphWidth halves it. *)
Unit == 20 * 2

Px(n) == n * Unit

(* An optional field that has not been assigned yet. *)
Undefined == -1

----------------------------------------------------------------------------
(* JavaScript numbers *)

Num(v) == [kind |-> "num", n |-> v, d |-> 1]

Frac(a, b) == [kind |-> "num", n |-> a, d |-> b]

NaN == [kind |-> "NaN", n |-> 0, d |-> 1]

UndefinedNum == [kind |-> "undefined", n |-> 0, d |-> 1]

IsNum(x) == x.kind = "num"

Leq(x, y) == x.n * y.d <= y.n * x.d

MaxInt(a, b) == IF a >= b THEN a ELSE b

(* An array built from its elements. *)
Array(f) == <<>> \o f

(* Math.max(a, b): NaN as soon as an argument does not convert to a number. *)
MathMax(a, b) ==
  IF ~IsNum(a) \/ ~IsNum(b) THEN NaN
  ELSE IF Leq(b, a) THEN a ELSE b

(* extent(rows, selector)[1]: the largest value, undefined for no rows. *)
RECURSIVE extentMax(_)
extentMax(values) ==
  IF values = <<>> THEN UndefinedNum
  ELSE LET rest == extentMax(Tail(values))
       IN IF IsNum(rest) /\ rest.n >= Head(values) THEN rest ELSE Num(Head(values))

----------------------------------------------------------------------------
(* Text *)

Ellipsis == "..."

GlyphWidth(c) == IF c = Ellipsis THEN Px(EllipsisWidth) ELSE Px(CharWidth)

(* The rendered length of a text: its glyphs side by side. *)
getComputedTextLength(text) ==
  LET dots == Cardinality({i \in 1..Len(text) : text[i] = Ellipsis})
  IN dots * GlyphWidth(Ellipsis) + (Len(text) - dots) * GlyphWidth("a")

Digit(k) == CASE k = 0 -> "0" [] k = 1 -> "1" [] k = 2 -> "2" [] k = 3 -> "3"
              [] k = 4 -> "4" [] k = 5 -> "5" [] k = 6 -> "6" [] k = 7 -> "7"
              [] k = 8 -> "8" [] OTHER -> "9"

RECURSIVE Digits(_)
Digits(v) == IF v < 10 THEN <<Digit(v)>> ELSE Append(Digits(v \div 10), Digit(v % 10))

(* The text d3 gives a node for a numeric datum: String(v). *)
NumberText(v) == IF v < 0 THEN <<"-">> \o Digits(-v) ELSE Digits(v)

Front(s) == SubSeq(s, 1, Len(s) - 1)

(* The loop of truncateText: `text` is the local variable, `shown` the text *)
(* of the element.                                                          *)
(* The loop of truncateText with its second test off by one. *)
RECURSIVE truncateLoopKeepsOne(_, _, _)
truncateLoopKeepsOne(text, shown, width) ==
  IF getComputedTextLength(shown) > width /\ Len(text) > 1
  THEN truncateLoopKeepsOne(Front(text), Append(Front(text), Ellipsis), width)
  ELSE shown

truncateTextKeepsOne(width, shown) == truncateLoopKeepsOne(shown, shown, width)

RECURSIVE truncateLoop(_, _, _)
truncateLoop(text, shown, width) ==
  IF getComputedTextLength(shown) > width /\ Len(text) > 0
  THEN truncateLoop(Front(text), Append(Front(text), Ellipsis), width)
  ELSE shown

truncateText(width, shown) == truncateLoop(shown, shown, width)

(* x.toFixed(0): the sign, then the integer nearest to |x|, the larger of two *)
(* equally near.                                                              *)
toFixed0(x) ==
  LET a == IF x.n < 0 THEN -x.n ELSE x.n
  IN [negative |-> x.n < 0, integer |-> (2 * a + x.d) \div (2 * x.d)]

(* rowTooltipSelector with the guard of the division as `right !== 0`. *)
rowTooltipSelectorNonZero(item) ==
  LET ratio == IF item.right > 0 THEN Frac(item.left, item.right)
               ELSE IF item.right < 0 THEN Frac(-item.left, -item.right)
               ELSE Num(0)
  IN toFixed0(Frac(ratio.n * 100, ratio.d))

(* The html of the tooltip of a row: <span>Ratio: N%</span>, kept as N. *)
rowTooltipSelector(item) ==
  LET ratio == IF item.right > 0 THEN Frac(item.left, item.right) ELSE Num(0)
  IN toFixed0(Frac(ratio.n * 100, ratio.d))

----------------------------------------------------------------------------
(* The scales (d3-scale 1.x) *)

(* scaleLinear(): domain [0, 1], range [0, 1]. *)
scaleLinear == [domain |-> <<Num(0), Num(1)>>, range |-> <<Px(0), Px(1)>>]

(* scale(x) of a linear scale: the range interpolated at (x - d0) / (d1 - d0); *)
(* a domain of no extent maps every x to range[0], a NaN domain to NaN.        *)
linearApply(scale, x) ==
  LET d0 == scale.domain[1]
      d1 == scale.domain[2]
      r0 == scale.range[1]
      r1 == scale.range[2]
      b  == d1.n - d0.n
  IN IF ~IsNum(d0) \/ ~IsNum(d1) THEN NaN
     ELSE IF b = 0 THEN Num(r0)
     ELSE IF b > 0 THEN Frac(r0 * b + (x - d0.n) * (r1 - r0), b)
     ELSE Frac(-(r0 * b + (x - d0.n) * (r1 - r0)), -b)

(* sequence(size): [0, 1, ..., size - 1]. *)
sequence(size) == Array([i \in 1..size |-> i - 1])

(* scaleBand<number>().align(0): paddings in hundredths, range in pixels. *)
scaleBand ==
  [domain |-> <<>>, range |-> <<0, 1>>, paddingInner |-> 0, paddingOuter |-> 0, align |-> 0]

(* rescale() of a band scale orders the two ends of the range before it  *)
(* divides: step = (stop - start) / max(1, n - paddingInner + 2 * paddingOuter). *)
bandStep(scale) ==
  LET n       == Len(scale.domain)
      reverse == scale.range[2] < scale.range[1]
      start   == IF reverse THEN scale.range[2] ELSE scale.range[1]
      stop    == IF reverse THEN scale.range[1] ELSE scale.range[2]
  IN Frac((stop - start) * 100,
          MaxInt(100, 100 * n - scale.paddingInner + 2 * scale.paddingOuter))

(* bandwidth = step * (1 - paddingInner). *)
bandBandwidth(scale) ==
  LET step == bandStep(scale)
  IN Frac(step.n * (100 - scale.paddingInner), step.d * 100)

----------------------------------------------------------------------------
(* The getters of vis *)

graphWidth(this) == (Px(this.width) * 13) \div 20

legendWidth(this) == Px(this.width) - (graphWidth(this) + Px(10))

legendTextWidth(this) == legendWidth(this) - Px(8)

halfGraphWidth(this) == graphWidth(this) \div 2

halfGraphBarMaxWidth(this) == halfGraphWidth(this) - (this.maxBarLabelWidth + Px(10))

titleTextWidth(this) == halfGraphWidth(this) - Px(10)

rowHeight(this) == bandStep(this.rowYPosition)

barHeight(this) == bandBandwidth(this.rowYPosition)

rowHighlightThickness(this) == rowHeight(this)

(* barMargin with the two heights the other way round. *)
barMarginSwapped(this) ==
  LET r == rowHeight(this)
      b == barHeight(this)
  IN Frac(b.n * r.d - r.n * b.d, r.d * b.d * 2)

barMargin(this) ==
  LET r == rowHeight(this)
      b == barHeight(this)
  IN Frac(r.n * b.d - b.n * r.d, r.d * b.d * 2)

barOriginX(this) == Px(this.width) - halfGraphWidth(this)

----------------------------------------------------------------------------
(* The vis object as the module leaves it: no svg, the three scales fresh. *)

NoSvg ==
  [created |-> FALSE, width |-> Undefined, height |-> Undefined,
   rows |-> <<>>, titles |-> <<>>, dummies |-> <<>>]

NoTooltip == [set |-> FALSE, id |-> 0, offset |-> <<0, 0>>]

(* svgRows: not assigned yet, or a selection, the ids of its nodes. *)
NoSelection == [set |-> FALSE, nodes |-> {}]

InitialVis ==
  [svg |-> NoSvg, tooltip |-> NoTooltip, svgRows |-> NoSelection,
   width |-> Undefined, height |-> Undefined, maxBarLabelWidth |-> Undefined,
   rowYPosition |-> scaleBand, leftBarWidth |-> scaleLinear, rightBarWidth |-> scaleLinear]

----------------------------------------------------------------------------
(* d3 selections *)

Ids(nodes) == {nodes[i].id : i \in 1..Len(nodes)}

(* selection.remove(): the nodes of the selection, known by their ids, *)
(* leave the document.                                                 *)
Remove(children, selection) == SelectSeq(children, LAMBDA n : n.id \notin selection)

(* selectAll(..).data(data).enter(): the data are joined to the nodes   *)
(* found by index, and enter() holds the indices no node was found for. *)
Enter(found, data) ==
  Array([k \in 1..MaxInt(0, Len(data) - Len(found)) |-> Len(found) + k])

----------------------------------------------------------------------------
(* The steps of an update cycle.  `cycle` numbers the cycle, and stamps *)
(* the nodes it creates.                                                 *)

rowNameSelector(row) == row.name

rowLeftSelector(row) == row.left

rowRightSelector(row) == row.right

(* handleErrors of ../common/utils: whether the counts of the query's *)
(* fields lie within the limits given.                                *)
handleErrors(this, queryResponse, limits) ==
  /\ Len(queryResponse.fields.pivots) >= limits.min_pivots
  /\ Len(queryResponse.fields.pivots) <= limits.max_pivots
  /\ Len(queryResponse.fields.dimensions) >= limits.min_dimensions
  /\ Len(queryResponse.fields.dimensions) <= limits.max_dimensions
  /\ Len(queryResponse.fields.measures) >= limits.min_measures
  /\ Len(queryResponse.fields.measures) <= limits.max_measures

validateInputs(this, queryResponse) ==
  handleErrors(this, queryResponse,
               [min_pivots |-> 0, max_pivots |-> 0,
                min_dimensions |-> 1, max_dimensions |-> 1,
                min_measures |-> 2, max_measures |-> 2])

(* .each(...) of determineMaxBarValueWidth: Math.max of the running maximum *)
(* and the length of each node in turn.                                      *)
RECURSIVE widest(_, _)
widest(maxBarLabelWidth, nodes) ==
  IF nodes = <<>> THEN maxBarLabelWidth
  ELSE widest(MaxInt(maxBarLabelWidth, getComputedTextLength(Head(nodes).text)),
              Tail(nodes))

(* One column of determineMaxBarValueWidth: a text node per row that has *)
(* none, each measured into the running maximum, then removed.           *)
probeColumn(this, rowData, class, cycle) ==
  LET found    == SelectSeq(this.svg.dummies, LAMBDA n : n.class = class)
      enter    == Enter(found, rowData)
      value(i) == IF class = "dummy-left" THEN rowLeftSelector(rowData[i])
                  ELSE rowRightSelector(rowData[i])
      appended == Array([k \in 1..Len(enter) |->
                           [id |-> <<cycle, class, enter[k]>>, class |-> class,
                            text |-> NumberText(value(enter[k]))]])
  IN [this EXCEPT !.maxBarLabelWidth = widest(this.maxBarLabelWidth, appended),
                  !.svg.dummies = Remove(this.svg.dummies \o appended, Ids(appended))]

determineMaxBarValueWidth(this, rowData, cycle) ==
  LET zeroed == [this EXCEPT !.maxBarLabelWidth = 0]
      left   == probeColumn(zeroed, rowData, "dummy-left", cycle)
  IN probeColumn(left, rowData, "dummy-right", cycle)

setupInputs(this, doubleBarData, cycle) ==
  LET rows      == doubleBarData.rows
      leftMax   == extentMax(Array([i \in 1..Len(rows) |-> rowLeftSelector(rows[i])]))
      rightMax  == extentMax(Array([i \in 1..Len(rows) |-> rowRightSelector(rows[i])]))
      maxOfBoth == MathMax(leftMax, rightMax)
  IN [this EXCEPT
        !.tooltip = [set |-> TRUE, id |-> cycle, offset |-> <<0, 0>>],
        !.leftBarWidth.domain = <<Num(0), maxOfBoth>>,
        !.rightBarWidth.domain = <<Num(0), maxOfBoth>>,
        !.rowYPosition.paddingInner = 70,
        !.rowYPosition.paddingOuter = 70 \div 2,
        !.rowYPosition.domain = sequence(Len(rows))]

DefaultLeftColor == "#FEC500"

DefaultRightColor == "#42B3D5"

(* The row group appended for the i-th row, with the children setupRender *)
(* gives it.                                                              *)
rowGroup(row, i, config, cycle) ==
  [id |-> <<cycle, "chart-row", i>>, datum |-> row,
   highlightWidth |-> Undefined, highlightHeight |-> UndefinedNum,
   legendText |-> <<>>,
   leftValueText |-> NumberText(rowLeftSelector(row)),
   rightValueText |-> NumberText(rowRightSelector(row)),
   leftFill |-> IF config.leftColor # "" THEN config.leftColor ELSE DefaultLeftColor,
   rightFill |-> IF config.rightColor # "" THEN config.rightColor ELSE DefaultRightColor,
   barY |-> UndefinedNum, barHeight |-> UndefinedNum,
   leftBarWidth |-> UndefinedNum, rightBarWidth |-> UndefinedNum]

(* A title text appended to the svg: no text yet. *)
titleNode(class, cycle) ==
  [id |-> <<cycle, class, 0>>, class |-> class, x |-> Undefined, text |-> <<>>]

(* setupRender without the removal of the row groups of the cycle before. *)
setupRenderKeepsRows(this, doubleBarData, config, cycle) ==
  LET kept   == this.svg.rows
      enter  == Enter(kept, doubleBarData.rows)
      groups == Array([k \in 1..Len(enter) |->
                         rowGroup(doubleBarData.rows[enter[k]], enter[k], config, cycle)])
  IN [this EXCEPT
        !.svg.rows = kept \o groups,
        !.svgRows = [set |-> TRUE, nodes |-> Ids(groups)],
        !.svg.titles = this.svg.titles
                         \o <<titleNode("left-title", cycle), titleNode("right-title", cycle)>>]

setupRender(this, doubleBarData, config, cycle) ==
  LET kept   == IF this.svgRows.set THEN Remove(this.svg.rows, this.svgRows.nodes)
                ELSE this.svg.rows
      enter  == Enter(kept, doubleBarData.rows)
      groups == Array([k \in 1..Len(enter) |->
                         rowGroup(doubleBarData.rows[enter[k]], enter[k], config, cycle)])
  IN [this EXCEPT
        !.svg.rows = kept \o groups,
        !.svgRows = [set |-> TRUE, nodes |-> Ids(groups)],
        !.svg.titles = this.svg.titles
                         \o <<titleNode("left-title", cycle), titleNode("right-title", cycle)>>]

(* svg.select(selector): the first node of the class in document order. *)
FirstOf(nodes, class) ==
  LET at == {i \in 1..Len(nodes) : nodes[i].class = class}
  IN IF at = {} THEN 0 ELSE CHOOSE i \in at : \A j \in at : i <= j

setupSizing(this, doubleBarData) ==
  LET scaled == [this EXCEPT
                   !.tooltip.offset = <<0, barOriginX(this) - (Px(this.width) \div 2)>>,
                   !.rowYPosition.range = <<15, this.height>>,
                   !.leftBarWidth.range = <<Px(1), halfGraphBarMaxWidth(this)>>,
                   !.rightBarWidth.range = <<Px(1), halfGraphBarMaxWidth(this)>>]
      selected == scaled.svgRows.nodes
      sized(node) ==
        [node EXCEPT
           !.highlightWidth = scaled.width,
           !.highlightHeight = rowHighlightThickness(scaled),
           !.legendText = truncateText(legendTextWidth(scaled), rowNameSelector(node.datum)),
           !.barY = barMargin(scaled),
           !.barHeight = barHeight(scaled),
           !.leftBarWidth = linearApply(scaled.leftBarWidth, rowLeftSelector(node.datum)),
           !.rightBarWidth = linearApply(scaled.rightBarWidth, rowRightSelector(node.datum))]
      rows == Array([i \in 1..Len(scaled.svg.rows) |->
                       IF scaled.svg.rows[i].id \in selected THEN sized(scaled.svg.rows[i])
                       ELSE scaled.svg.rows[i]])
      leftAt  == FirstOf(scaled.svg.titles, "left-title")
      rightAt == FirstOf(scaled.svg.titles, "right-title")
      titles == Array([i \in 1..Len(scaled.svg.titles) |->
                   IF i = leftAt
                   THEN [scaled.svg.titles[i] EXCEPT
                           !.x = barOriginX(scaled) - Px(10),
                           !.text = truncateText(titleTextWidth(scaled), doubleBarData.leftTitle)]
                   ELSE IF i = rightAt
                   THEN [scaled.svg.titles[i] EXCEPT
                           !.x = barOriginX(scaled) + Px(10),
                           !.text = truncateText(titleTextWidth(scaled), doubleBarData.rightTitle)]
                   ELSE scaled.svg.titles[i]])
  IN [scaled EXCEPT !.svg.rows = rows, !.svg.titles = titles]

createChartData(data, config) ==
  LET dimensionName    == config.query_fields.dimensions[1].name
      leftMeasureName  == config.query_fields.measures[1].name
      rightMeasureName == config.query_fields.measures[2].name
  IN [leftTitle  |-> config.query_fields.measures[1].label,
      rightTitle |-> config.query_fields.measures[2].label,
      rows |-> Array([i \in 1..Len(data) |->
                        [name  |-> data[i][dimensionName].value,
                         left  |-> data[i][leftMeasureName].value,
                         right |-> data[i][rightMeasureName].value]])]

create(this) == [this EXCEPT !.svg = [NoSvg EXCEPT !.created = TRUE]]

(* The element's size stored in the vis object and set on the svg. *)
resized(this, element) ==
  [this EXCEPT !.width = element.clientWidth,
               !.height = element.clientHeight,
               !.svg.width = element.clientWidth,
               !.svg.height = element.clientHeight]

(* updateAsync storing the size before it validates. *)
updateAsyncSizesFirst(this, data, element, config, queryResponse, cycle) ==
  IF ~validateInputs(this, queryResponse)
  THEN [this |-> resized(this, element), doneRendering |-> 0]
  ELSE LET chartData == createChartData(data, config)
           inputs    == setupInputs(resized(this, element), chartData, cycle)
           probed    == determineMaxBarValueWidth(inputs, chartData.rows, cycle)
           rendered  == setupRender(probed, chartData, config, cycle)
       IN [this |-> setupSizing(rendered, chartData), doneRendering |-> 1]

(* updateAsync probing the label widths after the sizing, not before. *)
updateAsyncProbesLast(this, data, element, config, queryResponse, cycle) ==
  IF ~validateInputs(this, queryResponse)
  THEN [this |-> this, doneRendering |-> 0]
  ELSE LET chartData == createChartData(data, config)
           inputs    == setupInputs(resized(this, element), chartData, cycle)
           rendered  == setupRender(inputs, chartData, config, cycle)
           sizedAll  == setupSizing(rendered, chartData)
       IN [this |-> determineMaxBarValueWidth(sizedAll, chartData.rows, cycle),
           doneRendering |-> 1]

(* updateAsync: the vis object it leaves, and how many times it has called *)
(* doneRendering by the time it returns.                                   *)
updateAsync(this, data, element, config, queryResponse, cycle) ==
  IF ~validateInputs(this, queryResponse)
  THEN [this |-> this, doneRendering |-> 0]
  ELSE LET sizedSvg  == resized(this, element)
           chartData == createChartData(data, config)
           inputs    == setupInputs(sizedSvg, chartData, cycle)
           probed    == determineMaxBarValueWidth(inputs, chartData.rows, cycle)
           rendered  == setupRender(probed, chartData, config, cycle)
           sizedAll  == setupSizing(rendered, chartData)
       IN [this |-> sizedAll, doneRendering |-> 1]

----------------------------------------------------------------------------
(* The host: what it passes to updateAsync *)

Letters == <<"a", "b", "c", "d", "e", "f", "g", "h", "i", "j", "k", "l", "m">>

(* The dimension value of the i-th record: the categories of a result are *)
(* distinct, and longer further down.                                      *)
NameAt(i) == SubSeq(Letters, 1, 3 * i - 2)

(* The two measures of a record: both zero, the left one larger, the right *)
(* one larger.                                                             *)
Measures == {<<0, 0>>, <<10, 0>>, <<3, 10>>}

Elements ==
  {[clientWidth |-> 30, clientHeight |-> 10],
   [clientWidth |-> 100, clientHeight |-> 200]}

Record(i, left, right) ==
  [category |-> [value |-> NameAt(i)], m_left |-> [value |-> left], m_right |-> [value |-> right]]

DataSets ==
  UNION {{Array([i \in 1..n |-> Record(i, f[i][1], f[i][2])]) : f \in [1..n -> Measures]}
         : n \in 0..MaxRows}

QueryFields(leftLabel, rightLabel) ==
  [dimensions |-> <<[name |-> "category"]>>,
   measures |-> <<[name |-> "m_left", label |-> leftLabel],
                  [name |-> "m_right", label |-> rightLabel]>>]

Configs ==
  {[query_fields |-> QueryFields(<<"C", "o", "s", "t">>, <<"S", "a", "l", "e", "s">>),
    leftColor |-> "", rightColor |-> ""],
   [query_fields |-> QueryFields(<<"Q", "t", "y">>, <<"C", "o", "s", "t">>),
    leftColor |-> "", rightColor |-> "#000"]}

Query(dimensions, measures, pivots) ==
  [fields |-> [dimensions |-> dimensions, measures |-> measures, pivots |-> pivots]]

ValidQuery == Query(<<"category">>, <<"m_left", "m_right">>, <<>>)

InvalidQueries ==
  {Query(<<"category", "region">>, <<"m_left", "m_right">>, <<>>),
   Query(<<"category">>, <<"m_left">>, <<>>)}

(* A call that fails validation returns before it reads data or config. *)
Calls ==
  [data : DataSets, element : Elements, config : Configs, queryResponse : {ValidQuery}]
  \cup [data : {<<>>}, element : Elements,
        config : {CHOOSE c \in Configs : TRUE}, queryResponse : InvalidQueries]

NoCall ==
  [data |-> <<>>, element |-> [clientWidth |-> 0, clientHeight |-> 0],
   config |-> CHOOSE c \in Configs : TRUE, queryResponse |-> ValidQuery]

(* host.cycles: the update calls that passed validation, host.rendered the *)
(* arguments of the latest of them.  host.returned: an update call has     *)
(* returned; host.passed: the latest one passed validation;                *)
(* host.doneRendering: the times the latest one called doneRendering.      *)
InitialHost ==
  [cycles |-> 0, rendered |-> NoCall, returned |-> FALSE, passed |-> FALSE,
   doneRendering |-> 0]

(* el: a text element handed to truncateText, `given` the text it had. *)
NoElement == [given |-> <<>>, text |-> <<>>, width |-> 0, truncated |-> FALSE]

(* tip: the tooltip over a row group whose datum is `item`. *)
NoTip ==
  [item |-> [name |-> <<>>, left |-> 0, right |-> 0], shown |-> FALSE,
   html |-> [negative |-> FALSE, integer |-> 0]]

----------------------------------------------------------------------------
(* The chart in its host *)

Init ==
  /\ vis = InitialVis
  /\ host = InitialHost
  /\ el = NoElement
  /\ tip = NoTip

Create ==
  /\ ~vis.svg.created
  /\ vis' = create(vis)
  /\ UNCHANGED <<host, el, tip>>

UpdateAsync(call) ==
  /\ vis.svg.created
  /\ host.cycles < MaxCycles
  /\ LET passes == validateInputs(vis, call.queryResponse)
         cycle  == host.cycles + 1
         result == updateAsync(vis, call.data, call.element, call.config,
                               call.queryResponse, cycle)
     IN /\ vis' = result.this
        /\ host' = [cycles |-> IF passes THEN cycle ELSE host.cycles,
                    rendered |-> IF passes THEN call ELSE host.rendered,
                    returned |-> TRUE, passed |-> passes,
                    doneRendering |-> result.doneRendering]
  /\ UNCHANGED <<el, tip>>

Next ==
  \/ Create
  \/ \E call \in Calls : UpdateAsync(call)

Spec == Init /\ [][Next]_vars

----------------------------------------------------------------------------
(* truncateText on its own: any short text against any width *)

Texts == UNION {[1..n -> {"a", "b"}] : n \in 0..MaxLen}

TruncateWidths == {Px(w) : w \in -1..(MaxLen * CharWidth + 1)}

InitTruncate ==
  /\ vis = InitialVis
  /\ host = InitialHost
  /\ tip = NoTip
  /\ \E text \in Texts, width \in TruncateWidths :
       el = [given |-> text, text |-> text, width |-> width, truncated |-> FALSE]

(* .each(truncateText(width)) on the element. *)
TruncateText ==
  /\ el' = [el EXCEPT !.text = truncateText(el.width, el.text), !.truncated = TRUE]
  /\ UNCHANGED <<vis, host, tip>>

NextTruncate == TruncateText

SpecTruncate == InitTruncate /\ [][NextTruncate]_vars

----------------------------------------------------------------------------
(* The tooltip on its own: a row group of any two measures under the mouse *)

TipLefts == -MaxTipVal..MaxTipVal

TipRights == (-MaxTipVal..MaxTipVal) \cup {8, 300}

InitTooltip ==
  /\ vis = InitialVis
  /\ host = InitialHost
  /\ el = NoElement
  /\ \E left \in TipLefts, right \in TipRights :
       tip = [NoTip EXCEPT !.item = [name |-> <<"a">>, left |-> left, right |-> right]]

(* on('mouseover'): tooltip.show(data, target) renders html(data). *)
MouseOver ==
  /\ tip' = [tip EXCEPT !.shown = TRUE, !.html = rowTooltipSelector(tip.item)]
  /\ UNCHANGED <<vis, host, el>>

(* on('mouseout'): tooltip.hide(data). *)
MouseOut ==
  /\ tip.shown
  /\ tip' = [tip EXCEPT !.shown = FALSE]
  /\ UNCHANGED <<vis, host, el>>

NextTooltip == MouseOver \/ MouseOut

SpecTooltip == InitTooltip /\ [][NextTooltip]_vars

----------------------------------------------------------------------------
(* What the properties speak of *)

Abs(x) == IF x < 0 THEN -x ELSE x

(* The rows the host handed to the latest cycle that passed validation. *)
GivenData == host.rendered.data

GivenRow(i) ==
  [name  |-> GivenData[i].category.value,
   left  |-> GivenData[i].m_left.value,
   right |-> GivenData[i].m_right.value]

GivenValues ==
  {GivenData[i].m_left.value : i \in 1..Len(GivenData)}
    \cup {GivenData[i].m_right.value : i \in 1..Len(GivenData)}

GivenLabels == host.rendered.config.query_fields.measures

(* The widest value label of the given rows, 0 for no rows. *)
GivenLabelWidth ==
  LET widths == {getComputedTextLength(NumberText(v)) : v \in GivenValues} \cup {0}
  IN CHOOSE w \in widths : \A u \in widths : u <= w

RowGroups == vis.svg.rows

----------------------------------------------------------------------------
(* C1: every update call has invoked doneRendering exactly once by the time *)
(* it returns, whether validation passed or failed.                         *)
C1_DoneRenderingOncePerCall == host.returned => host.doneRendering = 1

(* C2: an update call that fails validation changes nothing: the stored    *)
(* width and height, the three scales, maxBarLabelWidth, the tooltip, the  *)
(* row groups, the title nodes and the rest of the scene are as before it. *)
C2_FailedValidationChangesNothing ==
  [][(host'.returned /\ ~host'.passed) =>
       /\ vis'.width = vis.width
       /\ vis'.height = vis.height
       /\ vis'.leftBarWidth = vis.leftBarWidth
       /\ vis'.rightBarWidth = vis.rightBarWidth
       /\ vis'.rowYPosition = vis.rowYPosition
       /\ vis'.maxBarLabelWidth = vis.maxBarLabelWidth
       /\ vis'.tooltip = vis.tooltip
       /\ vis'.svgRows = vis.svgRows
       /\ vis'.svg = vis.svg]_vars

(* A scene of row groups rendered by an earlier cycle, and the latest *)
(* update call failed validation.                                      *)
C2_Witness ==
  /\ host.returned
  /\ ~host.passed
  /\ host.cycles > 0
  /\ Len(RowGroups) > 0
  /\ Len(vis.svg.titles) > 0

(* C3: after a cycle, whatever the rows (none, or all zero, included), the *)
(* two value scales have the same domain, from 0 to a number, the largest  *)
(* of the left and right values pooled.                                    *)
C3_PooledDomain ==
  host.cycles > 0 =>
    LET top == vis.leftBarWidth.domain[2]
    IN /\ vis.leftBarWidth.domain = vis.rightBarWidth.domain
       /\ vis.leftBarWidth.domain[1] = Num(0)
       /\ IsNum(top)
       /\ GivenValues # {} =>
            /\ top.d = 1
            /\ top.n \in GivenValues
            /\ \A v \in GivenValues : v <= top.n

(* C6: after every completed cycle, for any number of rows and any height, *)
(* barMargin >= 0 and barHeight <= rowHeight, in the getters and in what   *)
(* the row groups were given.                                              *)
C6_BarWithinRow ==
  host.cycles > 0 =>
    /\ barMargin(vis).n >= 0
    /\ Leq(barHeight(vis), rowHeight(vis))
    /\ \A i \in 1..Len(RowGroups) :
         /\ RowGroups[i].barY = barMargin(vis)
         /\ RowGroups[i].barY.n >= 0
         /\ Leq(RowGroups[i].barHeight, RowGroups[i].highlightHeight)

(* Rows rendered in a container lower than the top offset of 15. *)
C6_Witness ==
  /\ host.cycles > 0
  /\ vis.height < 15
  /\ Len(RowGroups) > 0
  /\ barMargin(vis).n > 0

(* C7: after a cycle both value scales have the range                     *)
(* [1, halfGraphBarMaxWidth], and every bar width is a number, at least 1 *)
(* and at most halfGraphBarMaxWidth.                                      *)
C7_BarWidthsWithinRange ==
  host.cycles > 0 =>
    /\ vis.leftBarWidth.range = <<Px(1), halfGraphBarMaxWidth(vis)>>
    /\ vis.rightBarWidth.range = <<Px(1), halfGraphBarMaxWidth(vis)>>
    /\ \A i \in 1..Len(RowGroups) :
         \A w \in {RowGroups[i].leftBarWidth, RowGroups[i].rightBarWidth} :
           /\ IsNum(w)
           /\ Leq(Num(Px(1)), w)
           /\ Leq(w, Num(halfGraphBarMaxWidth(vis)))

(* C8: after a cycle that passed validation the scene holds one row group *)
(* per row of that cycle, in order, each built in that cycle from its row, *)
(* and this stays so through calls that fail validation.                   *)
C8_RowGroupsAreTheCyclesRows ==
  host.cycles > 0 =>
    /\ Len(RowGroups) = Len(GivenData)
    /\ \A i \in 1..Len(RowGroups) :
         /\ RowGroups[i].datum = GivenRow(i)
         /\ RowGroups[i].id = <<host.cycles, "chart-row", i>>
         /\ RowGroups[i].leftBarWidth # UndefinedNum
    /\ vis.svgRows.nodes = Ids(RowGroups)

(* A second cycle has replaced the row groups of the first. *)
C8_Witness ==
  /\ host.cycles = 2
  /\ Len(RowGroups) > 0
  /\ Len(RowGroups) < MaxRows

(* C9: the label width used in a cycle is the one probed in it: after the *)
(* cycle maxBarLabelWidth is the widest value label of its rows, the range *)
(* of the value scales ends at halfGraphWidth less that width and 10, the  *)
(* bar widths are the values scaled into that range, and no text node of   *)
(* the probe is left in the scene.                                         *)
C9_LabelWidthProbedInCycle ==
  host.cycles > 0 =>
    LET upper   == halfGraphWidth(vis) - (GivenLabelWidth + Px(10))
        scaleOf == [domain |-> vis.leftBarWidth.domain, range |-> <<Px(1), upper>>]
    IN /\ vis.width = host.rendered.element.clientWidth
       /\ vis.maxBarLabelWidth = GivenLabelWidth
       /\ vis.leftBarWidth.range = <<Px(1), upper>>
       /\ vis.rightBarWidth.range = <<Px(1), upper>>
       /\ \A i \in 1..Len(RowGroups) :
            /\ RowGroups[i].leftBarWidth = linearApply(scaleOf, GivenRow(i).left)
            /\ RowGroups[i].rightBarWidth = linearApply(scaleOf, GivenRow(i).right)
       /\ vis.svg.dummies = <<>>

(* A second cycle whose value labels are all of one digit. *)
C9_Witness ==
  /\ host.cycles = 2
  /\ Len(RowGroups) > 0
  /\ vis.maxBarLabelWidth = Px(CharWidth)

(* C10: after any number of cycles the scene holds two title nodes, a     *)
(* left-title and a right-title, showing the measure labels of the latest *)
(* cycle as truncateText leaves them.                                     *)
C10_TwoTitleNodes ==
  host.cycles > 0 =>
    /\ Len(vis.svg.titles) = 2
    /\ vis.svg.titles[1].class = "left-title"
    /\ vis.svg.titles[1].text = truncateText(titleTextWidth(vis), GivenLabels[1].label)
    /\ vis.svg.titles[2].class = "right-title"
    /\ vis.svg.titles[2].text = truncateText(titleTextWidth(vis), GivenLabels[2].label)

----------------------------------------------------------------------------
(* C4, as stated: the text truncateText leaves is no wider than the width *)
(* given, or is the empty text.                                            *)
C4_FitsOrEmpty ==
  el.truncated => (getComputedTextLength(el.text) <= el.width \/ el.text = <<>>)

(* C4, amended: the text truncateText leaves is no wider than the width   *)
(* given, or is the ellipsis alone (a text that had glyphs, all removed), *)
(* or is the empty text it was given.                                     *)
C4_FitsOrLoneEllipsis ==
  el.truncated =>
    \/ getComputedTextLength(el.text) <= el.width
    \/ el.text = <<Ellipsis>> /\ el.given # <<>>
    \/ el.text = <<>> /\ el.given = <<>>

(* A text left as the ellipsis alone, wider than the width given. *)
C4_Witness ==
  /\ el.truncated
  /\ el.text = <<Ellipsis>>
  /\ getComputedTextLength(el.text) > el.width

(* The percentage a tooltip shows, with its sign. *)
ShownPercent == IF tip.html.negative THEN -tip.html.integer ELSE tip.html.integer

====
